---- MODULE Spec2Model ----
(***************************************************************************)
(* Model of scripts/video_extractor.py: the VideoExtractor class           *)
(* (configuration load, credential resolution, source preparation with its *)
(* upload cache, extraction, document writing, the batch loop) and main(). *)
(*                                                                         *)
(* External collaborators (the file system, the Gemini Files API, the      *)
(* generation endpoint) are inputs: every call of one of them draws its    *)
(* outcome with \E from the outcomes that call can have.                   *)
(***************************************************************************)
EXTENDS Integers, Sequences, FiniteSets, TLC

---------------------------------------------------------------------------
(* Bounds of the model. *)

\* longest configured job list
MaxJobs == 2
\* most process_batch calls made on one extractor
MaxRuns == 2
\* most jobs resolved by all the process_batch calls on one extractor
MaxAttempts == 4

---------------------------------------------------------------------------
(* Values. *)

\* Python's None: the value of dict.get on a missing key, an absent argument.
None == "<None>"

\* Source identities.  Ambig is a relative file path (directory youtu.be,
\* file abc123) and, read as a URL, a scheme-less short URL.
LocalA == "videos/a.mp4"
Ambig == "youtu.be/abc123"
YtShort == "https://youtu.be/abc123"
YtWatch == "https://www.youtube.com/watch?v=abc123"
YtEmbed == "https://youtube.com/embed/abc123"
Vimeo == "https://vimeo.com/abc123"

OutA == "extracted/a.md"
OutB == "extracted/b.md"
Outputs == {OutA, OutB}

\* A string as the regular-expression engine reads it: its pieces, left to
\* right.  Word pieces consist of characters of the class [\w-] only.
Lex(url) ==
    CASE url = YtShort -> <<"https://", "youtu.be/", "abc123">>
      [] url = YtWatch -> <<"https://", "www.", "youtube.com/watch?v=", "abc123">>
      [] url = YtEmbed -> <<"https://", "youtube.com/embed/", "abc123">>
      [] url = Vimeo   -> <<"https://", "vimeo.com/", "abc123">>
      [] url = Ambig   -> <<"youtu.be/", "abc123">>
      [] url = LocalA  -> <<"videos", "/", "a", ".", "mp4">>
      [] OTHER         -> <<url>>

WordPieces == {"abc123", "videos", "a", "mp4"}

\* re.match of one pattern  (?:https?://)?(?:www\.)?<literal>[\w-]+  against
\* the start of the string: both prefixes are optional, the literal must
\* follow, then at least one word character.
MatchPattern(literal, s) ==
    LET afterScheme == IF Len(s) >= 1 /\ s[1] \in {"http://", "https://"}
                       THEN Tail(s) ELSE s
        afterWww == IF Len(afterScheme) >= 1 /\ afterScheme[1] = "www."
                    THEN Tail(afterScheme) ELSE afterScheme
    IN  /\ Len(afterWww) >= 2
        /\ afterWww[1] = literal
        /\ afterWww[2] \in WordPieces

youtube_patterns == <<"youtube.com/watch?v=", "youtu.be/", "youtube.com/embed/">>

\* VideoExtractor._is_youtube_url
_is_youtube_url(url) ==
    \E k \in 1..Len(youtube_patterns) : MatchPattern(youtube_patterns[k], Lex(url))

\* Python truthiness of an optional string: None and "" are false.
Truthy(v) == v # None /\ v # ""

\* Python's  a or b  on optional strings.
Or(a, b) == IF Truthy(a) THEN a ELSE b

\* dict.get(key, default): v is the field's content, None for a key the
\* dict does not have.
Get(v, default) == IF v = None THEN default ELSE v

---------------------------------------------------------------------------
(* The configured jobs (entries of config['videos']).  A field that holds  *)
(* None is a key the entry does not have.                                  *)

Job(id, title, path, url, output, filename) ==
    [id |-> id, title |-> title, section |-> None, path |-> path,
     youtube_url |-> url, output |-> output, filename |-> filename]

JLocal == Job("v1", "T1", LocalA, None, OutA, None)
JYt == Job("yt", "T3", None, YtShort, OutA, None)
JVimeo == Job(None, "T4", None, Vimeo, OutB, None)
JNeither == Job("v5", "T5", None, None, OutB, None)
JBoth == Job("v6", None, LocalA, Ambig, OutB, None)
JNoOutput == Job("v7", "T7", LocalA, None, None, None)
JAmbigPath == Job("v8", None, Ambig, None, OutA, "abc123")
JAmbigUrl == Job("v9", "T9", None, Ambig, OutB, None)

JobUniverse ==
    {JLocal, JYt, JVimeo, JNeither, JBoth, JNoOutput, JAmbigPath, JAmbigUrl}

RECURSIVE SeqsUpTo(_, _)
SeqsUpTo(S, n) ==
    IF n = 0 THEN {<<>>}
    ELSE LET shorter == SeqsUpTo(S, n - 1)
         IN  shorter \cup {Append(q, x) : q \in {r \in shorter : Len(r) = n - 1}, x \in S}

JobLists == SeqsUpTo(JobUniverse, MaxJobs)

\* The --videos argument / video_list parameter: absent (None), or a list,
\* which the code uses for truthiness and membership tests only.
VideoList(given, items) == [given |-> given, items |-> items]

NoVideoList == VideoList(FALSE, {})

\* One list names jobs by id ("yt"), by path and by URL.
Filters ==
    {NoVideoList, VideoList(TRUE, {"yt", LocalA, Vimeo}), VideoList(TRUE, {"nomatch"})}

\* Credentials that may be supplied on the command line, in the
\* environment and in the configuration file.
KeyCli == "key-cli"
KeyEnv == "key-env"
KeyFile == "key-file"

\* datetime.now().strftime('%Y-%m-%d')
Today == "2026-01-01"

\* Text the generation endpoint returns.
Body == "BODY"

\* A document that is at an output path before the program runs, and the
\* content of a path where there is no file.
OldDoc == <<"old document">>
NoFile == <<"<no file>">>

---------------------------------------------------------------------------
(* Pure parts of VideoExtractor. *)

\* The handle create_youtube_video_object builds (class YouTubeVideo).
YouTubeVideo(url, display_name) ==
    [uri |-> url, mime_type |-> "video/mp4", name |-> Or(display_name, url),
     is_youtube |-> TRUE, state |-> None]

\* The file object the Files API returns for its n-th upload: a name and a
\* uri of its own choosing, and the processing state.
FileObj(n, state) ==
    [uri |-> "https://files.example/files/" \o ToString(n), mime_type |-> "video/mp4",
     name |-> "files/" \o ToString(n), is_youtube |-> FALSE, state |-> state]

NoHandle == [uri |-> None, mime_type |-> None, name |-> None,
             is_youtube |-> FALSE, state |-> None]

\* ResolveVideos with the test on the id left out.
ResolveVideos_NoId(all, video_list) ==
    IF video_list.given /\ video_list.items # {}
    THEN LET Requested(v) == \/ v.path \in video_list.items
                             \/ v.youtube_url \in video_list.items
         IN  SelectSeq(all, Requested)
    ELSE all

\* process_batch, lines 294-301: the job list a run works on.
ResolveVideos(all, video_list) ==
    IF video_list.given /\ video_list.items # {}
    THEN LET Requested(v) == \/ v.path \in video_list.items
                             \/ v.youtube_url \in video_list.items
                             \/ v.id \in video_list.items
         IN  SelectSeq(all, Requested)
    ELSE all

\* process_batch, line 311.
NewResults(n) == [total |-> n, success |-> 0, failed |-> 0, errors |-> <<>>]

\* process_batch, line 305: the summary of a run that has nothing to do.
EmptyResults == [total |-> 0, success |-> 0, failed |-> 0]

\* RecordResult with the failure entered in the list but not counted.
RecordResult_NoCount(res, video_config, success) ==
    IF success
    THEN [res EXCEPT !.success = @ + 1]
    ELSE LET video_source == Or(video_config.youtube_url, video_config.path)
         IN  [res EXCEPT !.errors = Append(@, [video |-> Get(video_config.title, video_source),
                                               source |-> video_source])]

\* process_batch, lines 318-326: one job's outcome entered in the summary.
RecordResult(res, video_config, success) ==
    IF success
    THEN [res EXCEPT !.success = @ + 1]
    ELSE LET video_source == Or(video_config.youtube_url, video_config.path)
         IN  [res EXCEPT !.failed = @ + 1,
                         !.errors = Append(@, [video |-> Get(video_config.title, video_source),
                                               source |-> video_source])]

\* _generate_metadata_header, lines 227-228: label and value of the source line.
SourceInfo(video_metadata) ==
    Or(video_metadata.youtube_url, Get(video_metadata.filename, "Unknown"))

SourceLabel(video_metadata) ==
    IF Truthy(video_metadata.youtube_url) THEN "YouTube URL" ELSE "Video File"

\* _generate_metadata_header: the header, line by line.
_generate_metadata_header(video_metadata) ==
    << "# " \o Get(video_metadata.title, "Untitled"),
       "",
       "**Section:** " \o Get(video_metadata.section, "Unknown Section"),
       "**Extracted:** " \o Today,
       "**" \o SourceLabel(video_metadata) \o ":** " \o SourceInfo(video_metadata),
       "",
       "---" >>

\* save_markdown, lines 216-217: header, "\n\n", content.  The header ends
\* with a newline, so two empty lines stand between "---" and the content.
FullContent(content, video_metadata) ==
    _generate_metadata_header(video_metadata) \o <<"", "">> \o <<content>>

\* main, lines 384-385: a given --api-key is put into the environment.
SetEnviron(env_key, arg_key) == IF Truthy(arg_key) THEN arg_key ELSE env_key

\* ResolveApiKey with the two sources in the other order.
ResolveApiKey_FileFirst(env_key, file_key) == Or(file_key, env_key)

\* _setup_gemini, line 43.
ResolveApiKey(env_key, file_key) == Or(env_key, file_key)

\* ExitCodeFor with the test of the failures left out.
ExitCodeFor_Zero(res) == 0

\* main, lines 398-399, and the interpreter's status when main returns.
ExitCodeFor(res) == IF res.failed > 0 THEN 1 ELSE 0

---------------------------------------------------------------------------
(* State. *)

VARIABLES
    pc,              \* where the program is
    args_api_key,    \* the --api-key argument, None if not given
    attempts,        \* history: jobs resolved by the runs so far
    environ,         \* os.environ: GEMINI_API_KEY, None if not set
    config,          \* config.yaml, and self.config once it is loaded:
                     \* [ok, api_key, videos]; ok: the file exists and parses
    api_key,         \* the credential the client was built with
    uploaded_files,  \* self.uploaded_files: identity -> handle
    video_list,      \* process_batch's argument in the current run
    videos,          \* process_batch's resolved job list
    i,               \* process_batch's loop index (1-based)
    results,         \* process_batch's summary
    video_file_obj,  \* process_video / upload_video: the handle in hand
    content,         \* process_video: the extracted text
    docs,            \* the file system at the output paths
    runs,            \* process_batch calls made so far
    exit_code,       \* the process's exit status, -1 while it runs
    \* history of what the program did, for the properties
    delays,          \* rate-limit sleeps in the current run
    file_count,      \* uploads the Files API has received
    uploads,         \* path -> uploads of that path
    returned,        \* identity -> uris of the handles prepare calls returned
    service_calls,   \* the current run called the Files API or the model
    cur,             \* what the job in hand did so far
    last,            \* what the job that ended last did
    done             \* the ended jobs of the current run, in order

vars == <<pc, args_api_key, attempts, environ, config, api_key, uploaded_files, video_list, videos, i, results,
          video_file_obj, content, docs, runs, exit_code, delays, file_count,
          uploads, returned, service_calls, cur, last, done>>

Paths == {LocalA, Ambig}
Identities == {LocalA, Ambig, YtShort, Vimeo}

\* The history record of a job: nothing done yet.
NewCur ==
    [job |-> 0,                 \* its place in the resolved list
     cached_at_call |-> FALSE,  \* its identity was in the cache when prepare was called
     exists_checked |-> FALSE,  \* Path.exists() was called
     exists |-> "none",         \* and answered "yes" or "no"
     file_state |-> "none",     \* the last state the service reported for the
                                \* upload ("error": the call raised)
     uploads |-> 0,             \* calls of client.files.upload
     polled |-> FALSE,          \* client.files.get was called
     requests |-> 0,            \* calls of client.models.generate_content
     response |-> "none",       \* what the call gave: "error", "empty", "text"
     writes |-> 0,              \* times the output file was opened for writing
     prepare |-> "none",        \* each stage: "none", "ok" or "fail"
     extract |-> "none",
     write |-> "none",
     handle_uri |-> None,       \* uri of the handle preparation returned
     gen_uri |-> None,          \* uri sent to generate_content
     outcome |-> "running"]     \* "success", "failed" (returned False) or "raised"

\* The entry of done for a job that ended with history c.
Ended(c) ==
    [outcome |-> c.outcome,
     stages_ok |-> c.prepare = "ok" /\ c.extract = "ok" /\ c.write = "ok",
     wrote |-> c.writes > 0]    \* it opened its output file for writing

\* The credential is read by the constructor alone and the job list by
\* process_batch alone, so not every pair of them is explored: every
\* combination of the three credential sources and of a readable or
\* unreadable configuration file is run with the job lists of at most one
\* job, and every job list is run with the usual way to start the program
\* (a readable file, the key in the environment).
CredentialsVaried(jobs) == Len(jobs) <= 1

UsualStart(cfg, arg_key, env_key) ==
    cfg.ok /\ cfg.api_key = None /\ arg_key = None /\ env_key = KeyEnv

Init ==
    /\ pc = "start"
    /\ config \in [ok : BOOLEAN, api_key : {None, KeyFile}, videos : JobLists]
    /\ args_api_key \in {None, KeyCli}
    /\ environ \in {None, KeyEnv}
    /\ CredentialsVaried(config.videos) \/ UsualStart(config, args_api_key, environ)
    /\ api_key = None
    /\ attempts = 0
    /\ uploaded_files = <<>>
    /\ video_list = NoVideoList
    /\ videos = <<>>
    /\ i = 0
    /\ results = EmptyResults
    /\ video_file_obj = NoHandle
    /\ content = None
    /\ docs = (OutA :> OldDoc) @@ (OutB :> NoFile)
    /\ runs = 0
    /\ exit_code = -1
    /\ delays = 0
    /\ file_count = 0
    /\ uploads = [p \in Paths |-> 0]
    /\ returned = [s \in Identities |-> {}]
    /\ service_calls = FALSE
    /\ cur = NewCur
    /\ last = NewCur
    /\ done = <<>>

---------------------------------------------------------------------------
(* main and the constructor. *)

\* main, lines 383-392, with VideoExtractor.__init__: the configuration file
\* is read, the credential is resolved; an exception of either ends the
\* process with status 1.
main_init ==
    /\ pc = "start"
    /\ environ' = SetEnviron(environ, args_api_key)
    /\ LET key == ResolveApiKey(environ', config.api_key)
       IN  IF config.ok /\ Truthy(key)
           THEN /\ api_key' = key
                /\ pc' = "ready"
                /\ exit_code' = exit_code
           ELSE /\ api_key' = api_key
                /\ pc' = "exited"
                /\ exit_code' = 1
    /\ UNCHANGED <<args_api_key, attempts, config, uploaded_files, video_list, videos, i, results,
                   video_file_obj, content, docs, runs, delays, file_count,
                   uploads, returned, service_calls, cur, last, done>>

\* main, lines 395-399: process_batch returned, the process ends.
main_exit ==
    /\ pc = "returned"
    /\ runs = 1
    /\ pc' = "exited"
    /\ exit_code' = ExitCodeFor(results)
    /\ UNCHANGED <<args_api_key, attempts, environ, config, api_key, uploaded_files, video_list,
                   videos, i, results, video_file_obj, content, docs, runs, delays,
                   file_count, uploads, returned, service_calls, cur, last, done>>

\* main, line 395: process_batch raised; nothing catches it, the
\* interpreter prints the traceback and ends with status 1.
main_uncaught ==
    /\ pc = "raised"
    /\ runs = 1
    /\ pc' = "exited"
    /\ exit_code' = 1
    /\ UNCHANGED <<args_api_key, attempts, environ, config, api_key, uploaded_files, video_list,
                   videos, i, results, video_file_obj, content, docs, runs, delays,
                   file_count, uploads, returned, service_calls, cur, last, done>>

---------------------------------------------------------------------------
(* process_batch and process_video. *)

\* process_batch that starts each run with an empty preparation cache.
process_batch_ClearsCache(vl) ==
    /\ pc \in {"ready", "returned", "raised"}
    /\ runs < MaxRuns
    /\ runs' = runs + 1
    /\ video_list' = vl
    /\ videos' = ResolveVideos(config.videos, vl)
    /\ attempts + Len(videos') <= MaxAttempts
    /\ attempts' = attempts + Len(videos')
    /\ IF videos' = <<>>
       THEN /\ results' = EmptyResults
            /\ i' = 0
            /\ pc' = "returned"
       ELSE /\ results' = NewResults(Len(videos'))
            /\ i' = 1
            /\ pc' = "job"
    /\ delays' = 0
    /\ service_calls' = FALSE
    /\ done' = <<>>
    /\ cur' = NewCur
    /\ last' = NewCur
    /\ video_file_obj' = NoHandle
    /\ content' = None
    /\ uploaded_files' = <<>>
    /\ UNCHANGED <<args_api_key, environ, config, api_key, docs,
                   exit_code, file_count, uploads, returned>>

\* process_batch, lines 294-311: called on a constructed extractor, by main
\* or, again, by a program that uses the class.
\* The runs explored are bounded in number (MaxRuns) and in the jobs they
\* resolve together (MaxAttempts).
process_batch(vl) ==
    /\ pc \in {"ready", "returned", "raised"}
    /\ runs < MaxRuns
    /\ runs' = runs + 1
    /\ video_list' = vl
    /\ videos' = ResolveVideos(config.videos, vl)
    /\ attempts + Len(videos') <= MaxAttempts
    /\ attempts' = attempts + Len(videos')
    /\ IF videos' = <<>>
       THEN /\ results' = EmptyResults
            /\ i' = 0
            /\ pc' = "returned"
       ELSE /\ results' = NewResults(Len(videos'))
            /\ i' = 1
            /\ pc' = "job"
    /\ delays' = 0
    /\ service_calls' = FALSE
    /\ done' = <<>>
    /\ cur' = NewCur
    /\ last' = NewCur
    /\ video_file_obj' = NoHandle
    /\ content' = None
    /\ UNCHANGED <<args_api_key, environ, config, api_key, uploaded_files, docs,
                   exit_code, file_count, uploads, returned>>

\* EndVideo that starts a failed job again instead of moving on.
EndVideo_Retry(success, c) ==
    /\ results' = RecordResult(results, videos[i], success)
    /\ last' = [c EXCEPT !.job = i, !.outcome = IF success THEN "success" ELSE "failed"]
    /\ done' = Append(done, Ended(last'))
    /\ cur' = NewCur
    /\ video_file_obj' = NoHandle
    /\ content' = None
    /\ IF ~success
       THEN /\ delays' = delays
            /\ i' = i
            /\ pc' = "job"
       ELSE IF i < Len(videos)
       THEN /\ delays' = delays + 1
            /\ i' = i + 1
            /\ pc' = "job"
       ELSE /\ delays' = delays
            /\ i' = i
            /\ pc' = "returned"

\* process_video returned to process_batch, lines 316-333: the outcome is
\* entered in the summary, then either the rate-limit sleep and the next
\* job, or the end of the loop and the return of the summary.
EndVideo(success, c) ==
    /\ results' = RecordResult(results, videos[i], success)
    /\ last' = [c EXCEPT !.job = i, !.outcome = IF success THEN "success" ELSE "failed"]
    /\ done' = Append(done, Ended(last'))
    /\ cur' = NewCur
    /\ video_file_obj' = NoHandle
    /\ content' = None
    /\ IF i < Len(videos)
       THEN /\ delays' = delays + 1
            /\ i' = i + 1
            /\ pc' = "job"
       ELSE /\ delays' = delays
            /\ i' = i
            /\ pc' = "returned"

\* An exception leaves process_video outside its try block (lines 249 and
\* 253): process_batch has no handler, so it leaves process_batch as well.
RaiseOutOfBatch(c) ==
    /\ pc' = "raised"
    /\ last' = [c EXCEPT !.job = i, !.outcome = "raised"]
    /\ done' = Append(done, Ended(last'))
    /\ cur' = NewCur
    /\ UNCHANGED <<results, i, delays, video_file_obj, content>>

\* CacheHit with the lookup left out: nothing is ever found.
CacheHit_Never(cache, key) == FALSE

\* upload_video, line 106 / create_youtube_video_object, line 73.
CacheHit(cache, key) == key \in DOMAIN cache

\* CacheStore that keeps nothing but the new entry.
CacheStore_Evict(cache, key, handle) == [k \in {key} |-> handle]

\* upload_video, line 141 / create_youtube_video_object, line 93.
CacheStore(cache, key, handle) ==
    [k \in DOMAIN cache \cup {key} |-> IF k = key THEN handle ELSE cache[k]]

\* A prepare call returns handle h for identity key to process_video.
Prepared(key, h, c) ==
    /\ video_file_obj' = h
    /\ returned' = [returned EXCEPT ![key] = @ \cup {h.uri}]
    /\ cur' = [c EXCEPT !.prepare = "ok", !.handle_uri = h.uri]
    /\ pc' = "extract"
    /\ UNCHANGED <<results, i, delays, last, done, content>>

\* create_youtube_video_object, lines 72-94.
create_youtube_video_object(youtube_url, display_name) ==
    LET c == [cur EXCEPT !.cached_at_call = CacheHit(uploaded_files, youtube_url)]
    IN  IF CacheHit(uploaded_files, youtube_url)
        THEN /\ Prepared(youtube_url, uploaded_files[youtube_url], c)
             /\ UNCHANGED <<uploaded_files, file_count, uploads>>
        ELSE LET video_obj == YouTubeVideo(youtube_url, display_name)
             IN  /\ uploaded_files' = CacheStore(uploaded_files, youtube_url, video_obj)
                 /\ Prepared(youtube_url, video_obj, c)
                 /\ UNCHANGED <<file_count, uploads>>

UploadOutcomes == {"error", "PROCESSING", "ACTIVE", "FAILED"}

\* ProcessingFailed with the test left out: no state counts as a failure.
ProcessingFailed_Never(state) == FALSE

\* upload_video, line 135: the state the polling loop ended with is FAILED.
ProcessingFailed(state) == state = "FAILED"

\* upload_video, lines 110-142, up to the first poll: the file is opened and
\* uploaded.  opened: open() did not raise; up: the upload call raises
\* ("error") or returns a file object in one of the three states.
UploadFile(video_path, c0, opened, up) ==
    IF ~opened
    THEN /\ EndVideo(FALSE, [c0 EXCEPT !.prepare = "fail"])
         /\ UNCHANGED <<uploaded_files, file_count, uploads, returned>>
    ELSE LET c1 == [c0 EXCEPT !.uploads = @ + 1, !.file_state = up]
             obj == FileObj(file_count + 1, up)
         IN  /\ file_count' = file_count + 1
             /\ uploads' = [uploads EXCEPT ![video_path] = @ + 1]
             /\ CASE up = "PROCESSING" ->
                        /\ video_file_obj' = obj
                        /\ cur' = c1
                        /\ pc' = "poll"
                        /\ UNCHANGED <<uploaded_files, returned, results, i,
                                       delays, last, done, content>>
                  [] up = "error" \/ ProcessingFailed(up) ->
                        /\ EndVideo(FALSE, [c1 EXCEPT !.prepare = "fail"])
                        /\ UNCHANGED <<uploaded_files, returned>>
                  [] OTHER ->
                        /\ uploaded_files' = CacheStore(uploaded_files, video_path, obj)
                        /\ Prepared(video_path, obj, c1)

\* upload_video, lines 101-108, and what follows: Path.exists() answers, the
\* cache is looked up, the file is uploaded.
upload_video(video_path) ==
    LET c0 == [cur EXCEPT !.cached_at_call = CacheHit(uploaded_files, video_path),
                          !.exists_checked = TRUE]
        no == [c0 EXCEPT !.exists = "no"]
        yes == [c0 EXCEPT !.exists = "yes"]
    IN  \/ \* line 103: FileNotFoundError
           /\ EndVideo(FALSE, [no EXCEPT !.prepare = "fail"])
           /\ UNCHANGED <<uploaded_files, file_count, uploads, returned>>
        \/ \* the file exists
           IF CacheHit(uploaded_files, video_path)
           THEN /\ Prepared(video_path, uploaded_files[video_path], yes)
                /\ UNCHANGED <<uploaded_files, file_count, uploads>>
           ELSE \/ UploadFile(video_path, yes, FALSE, "error")
                \/ \E up \in UploadOutcomes : UploadFile(video_path, yes, TRUE, up)

\* process_video, lines 247-273: the job is read and validated, then its
\* source is prepared.
process_video ==
    /\ pc = "job"
    /\ LET video_config == videos[i]
           youtube_url == video_config.youtube_url
           video_path == video_config.path
       IN  IF video_config.output = None
           THEN \* line 249: KeyError
                /\ RaiseOutOfBatch(cur)
                /\ UNCHANGED <<uploaded_files, file_count, uploads, returned>>
           ELSE IF ~Truthy(youtube_url) /\ ~Truthy(video_path)
           THEN \* line 253: ValueError
                /\ RaiseOutOfBatch(cur)
                /\ UNCHANGED <<uploaded_files, file_count, uploads, returned>>
           ELSE IF Truthy(youtube_url)
           THEN create_youtube_video_object(youtube_url, video_config.title)
           ELSE upload_video(video_path)
    /\ service_calls' = (service_calls \/ file_count' # file_count)
    /\ UNCHANGED <<args_api_key, attempts, environ, config, api_key, video_list, videos, docs,
                   runs, exit_code>>

PollOutcomes == {"error", "PROCESSING", "ACTIVE", "FAILED"}

\* upload_video, lines 128-142: one turn of the polling loop (sleep, then
\* client.files.get, which raises or reports a state), and what follows the
\* loop once the state is no longer PROCESSING.
poll(got) ==
    /\ pc = "poll"
    /\ service_calls' = TRUE
    /\ LET video_path == videos[i].path
           c == [cur EXCEPT !.polled = TRUE, !.file_state = got]
           obj == [video_file_obj EXCEPT !.state = got]
       IN  CASE got = "PROCESSING" ->
                  /\ cur' = c
                  /\ UNCHANGED <<pc, video_file_obj, uploaded_files, returned,
                                 results, i, delays, last, done, content>>
            [] got = "error" \/ ProcessingFailed(got) ->
                  /\ EndVideo(FALSE, [c EXCEPT !.prepare = "fail"])
                  /\ UNCHANGED <<uploaded_files, returned>>
            [] OTHER ->
                  /\ uploaded_files' = CacheStore(uploaded_files, video_path, obj)
                  /\ Prepared(video_path, obj, c)
    /\ UNCHANGED <<args_api_key, attempts, environ, config, api_key, video_list, videos, docs,
                   runs, exit_code, file_count, uploads>>

GenerateOutcomes == {"prompt_error", "error", "empty", "text"}

\* ResponseOk with the test of the text left out.
ResponseOk_Any(gen) == gen \in {"empty", "text"}

\* extract_content, lines 186-187: a response without text is an error.
ResponseOk(gen) == gen = "text"

\* extract_content, lines 149-194, called at process_video line 276: the
\* prompt is built (template.format raises when the template does not fit
\* the job's metadata), then the generation request is sent with the
\* handle's uri; it raises, returns no text, or returns text.
extract_content(gen) ==
    /\ pc = "extract"
    /\ service_calls' = (service_calls \/ gen # "prompt_error")
    /\ IF gen = "prompt_error"
       THEN /\ EndVideo(FALSE, [cur EXCEPT !.extract = "fail"])
       ELSE LET c == [cur EXCEPT !.gen_uri = video_file_obj.uri, !.requests = @ + 1,
                                 !.response = gen]
            IN  IF ResponseOk(gen)
                THEN /\ content' = Body
                     /\ cur' = [c EXCEPT !.extract = "ok"]
                     /\ pc' = "save"
                     /\ UNCHANGED <<results, i, delays, last, done, video_file_obj>>
                ELSE EndVideo(FALSE, [c EXCEPT !.extract = "fail"])
    /\ UNCHANGED <<args_api_key, attempts, environ, config, api_key, uploaded_files, video_list,
                   videos, docs, runs, exit_code, file_count, uploads, returned>>

WriteOutcomes == {"ok", "mkdir_error", "write_error"}

\* WrittenFile that opens the file to append to it.
WrittenFile_Append(files, output_path, full_content) ==
    [files EXCEPT ![output_path] =
        IF @ = NoFile THEN full_content ELSE @ \o full_content]

\* save_markdown, lines 218-219: the file opened with mode 'w' and written:
\* its content is full_content, whatever it held.
WrittenFile(files, output_path, full_content) ==
    [files EXCEPT ![output_path] = full_content]

\* save_markdown, lines 212-222, called at process_video line 279: the
\* parent directory is made and the file opened (either may raise, the file
\* is then as it was); open(..., 'w') empties the file, and the write may
\* still raise.
save_markdown(wr) ==
    /\ pc = "save"
    /\ LET video_config == videos[i]
           output_path == video_config.output
       IN  CASE wr = "ok" ->
                  /\ docs' = WrittenFile(docs, output_path,
                                          FullContent(content, video_config))
                  /\ EndVideo(TRUE, [cur EXCEPT !.write = "ok", !.writes = @ + 1])
            [] wr = "write_error" ->
                  /\ docs' = [docs EXCEPT ![output_path] = <<>>]
                  /\ EndVideo(FALSE, [cur EXCEPT !.write = "fail", !.writes = @ + 1])
            [] OTHER ->
                  /\ docs' = docs
                  /\ EndVideo(FALSE, [cur EXCEPT !.write = "fail"])
    /\ UNCHANGED <<args_api_key, attempts, environ, config, api_key, uploaded_files, video_list,
                   videos, runs, exit_code, file_count, uploads, returned,
                   service_calls>>

---------------------------------------------------------------------------
(* The specification. *)

Next ==
    \/ main_init
    \/ \E vl \in Filters : process_batch(vl)
    \/ process_video
    \/ \E got \in PollOutcomes : poll(got)
    \/ \E gen \in GenerateOutcomes : extract_content(gen)
    \/ \E wr \in WriteOutcomes : save_markdown(wr)
    \/ main_exit
    \/ main_uncaught

Spec == Init /\ [][Next]_vars

\* One turn of the polling loop in which the service reports a state other
\* than PROCESSING, or the call raises: the turn that ends the loop.
PollEnds == \E got \in PollOutcomes \ {"PROCESSING"} : poll(got)

\* The program under the assumptions of progress: the interpreter goes on
\* with the job in hand (process_batch, lines 313-330, is one sequential
\* loop, and the generation and file calls return), and the service does
\* not report PROCESSING for ever (upload_video, lines 128-131, leaves the
\* loop in the turn in which it reports anything else).  No assumption is
\* made on whether a run is started or the process exits.
SpecLive ==
    /\ Init /\ [][Next]_vars
    /\ WF_vars(process_video)
    /\ WF_vars(PollEnds)
    /\ WF_vars(\E gen \in GenerateOutcomes : extract_content(gen))
    /\ WF_vars(\E wr \in WriteOutcomes : save_markdown(wr))

---------------------------------------------------------------------------
(* Notions the properties use. *)

InitialDocs == (OutA :> OldDoc) @@ (OutB :> NoFile)

\* The job the history record c is about (c.job > 0).
JobOf(c) == videos[c.job]

HasNoSource(v) == ~Truthy(v.youtube_url) /\ ~Truthy(v.path)

\* The job's source identifier: its URL if it has one, else its path.
SourceOf(v) == IF Truthy(v.youtube_url) THEN v.youtube_url ELSE v.path

IsRemote(v) == Truthy(v.youtube_url)

\* Indices of the ended jobs whose three stages all succeeded / did not.
Succeeded == {k \in 1..Len(done) : done[k].stages_ok}
NotSucceeded == {k \in 1..Len(done) : ~done[k].stages_ok}

\* The failure entries a summary should hold for the ended jobs k..Len(done).
RECURSIVE FailuresFrom(_)
FailuresFrom(k) ==
    IF k > Len(done) THEN <<>>
    ELSE IF done[k].stages_ok THEN FailuresFrom(k + 1)
    ELSE <<[video |-> IF videos[k].title = None THEN SourceOf(videos[k])
                      ELSE videos[k].title,
            source |-> SourceOf(videos[k])]>> \o FailuresFrom(k + 1)

---------------------------------------------------------------------------
(* C1.  process_batch never aborts part-way: whatever a job does, including *)
(* a job with no source or no output path, its exception is caught at the  *)
(* job's boundary and the job ends as a recorded failure, so no run of     *)
(* process_batch ends by an exception and no job ends by raising.          *)
C1_BatchNeverAborts ==
    /\ pc # "raised"
    /\ \A k \in 1..Len(done) : done[k].outcome \in {"success", "failed"}

(* C2.  The summary process_batch returns is exact: total is the number of *)
(* resolved jobs, success the number of jobs whose three stages all        *)
(* succeeded, failed the number of the others, success + failed = total,   *)
(* and (for a run that had jobs) the failure list holds one entry, title   *)
(* and source, for each failed job, in job order, and nothing else.        *)
C2_SummaryExact ==
    pc = "returned" =>
        /\ results.total = Len(videos)
        /\ Len(done) = Len(videos)
        /\ results.success = Cardinality(Succeeded)
        /\ results.failed = Cardinality(NotSucceeded)
        /\ results.success + results.failed = results.total
        /\ Len(videos) > 0 => results.errors = FailuresFrom(1)

\* Two jobs, the first failed, the second was still run and succeeded.
C2_Witness ==
    /\ pc = "returned"
    /\ Len(videos) = 2
    /\ ~done[1].stages_ok /\ done[2].stages_ok
    /\ results.failed = 1 /\ results.success = 1
    /\ Len(results.errors) = 1 /\ results.errors[1].source = SourceOf(videos[1])

(* C3.  A run over N >= 1 resolved jobs sleeps for the rate limit exactly  *)
(* N-1 times: when the run has ended, by return or otherwise, the number   *)
(* of sleeps is N-1, and while it runs job i, i-1 sleeps have been made.   *)
C3_DelaysExact ==
    /\ (pc \in {"returned", "raised"} /\ Len(videos) >= 1) => delays = Len(videos) - 1
    /\ pc \in {"job", "poll", "extract", "save"} => delays = i - 1

(* C4 as claimed.  Over any sequence of prepare calls the upload of one    *)
(* identity is invoked at most once, and all handles returned for one      *)
(* identity have the same uri.                                             *)
C4_UploadAtMostOnce ==
    /\ \A p \in Paths : uploads[p] <= 1
    /\ \A s \in Identities : Cardinality(returned[s]) <= 1

(* C4, amended.  Preparation is idempotent per identity once it has        *)
(* succeeded: after a prepare call has returned a handle for an identity,  *)
(* no later step uploads that identity again, and all handles ever         *)
(* returned for one identity have the same uri.  (A preparation that       *)
(* failed caches nothing, and the next call for the identity uploads       *)
(* again.)                                                                  *)
C4_IdempotentOncePrepared ==
    /\ [](\A s \in Identities : Cardinality(returned[s]) <= 1)
    /\ [][\A p \in Paths : returned[p] # {} => uploads'[p] = uploads[p]]_vars

\* A local identity whose first upload failed, whose second upload
\* succeeded, and which a third prepare call then found in the cache.
C4_Witness ==
    /\ pc = "extract"
    /\ ~IsRemote(videos[i]) /\ videos[i].path = LocalA
    /\ cur.cached_at_call /\ cur.prepare = "ok" /\ cur.uploads = 0
    /\ uploads[LocalA] = 2
    /\ returned[LocalA] = {cur.handle_uri}

(* C5.  A prepare call for an identity that is in the cache returns the    *)
(* cached handle and does nothing else: it succeeds, and it makes no       *)
(* file-existence check, no upload and no status poll.                     *)
C5_CachedNoRevalidation ==
    \A c \in {cur, last} :
        (c.cached_at_call /\ c.prepare # "none") =>
            /\ c.prepare = "ok"
            /\ ~c.exists_checked
            /\ c.uploads = 0
            /\ ~c.polled

\* A job's remote URL has none of the supported forms.
Unsupported(v) == Truthy(v.youtube_url) /\ ~_is_youtube_url(v.youtube_url)

(* C6.  A job whose remote URL has none of the supported forms is not      *)
(* prepared as a remote source: it never gets past preparation, it ends as *)
(* a failure of its preparation, and no generation request is made for it. *)
C6_UnsupportedUrlRejected ==
    /\ pc \in {"extract", "save"} => ~Unsupported(videos[i])
    /\ (last.job > 0 /\ Unsupported(JobOf(last))) =>
           /\ last.outcome = "failed"
           /\ last.prepare = "fail"
           /\ last.requests = 0

(* C7.  A job with neither a local path nor a remote URL is rejected       *)
(* before any service call of the run, wherever it stands in the list: at  *)
(* its rejection no service call has been made and no earlier job has run. *)
C7_RejectedBeforeAnyCall ==
    (last.outcome = "raised" /\ HasNoSource(JobOf(last))) =>
        /\ ~service_calls
        /\ last.job = 1
        /\ Len(done) = 1

\* The job is named by the filter in hand: by id, by path or by URL.
Named(v) ==
    \/ v.id \in video_list.items
    \/ v.path \in video_list.items
    \/ v.youtube_url \in video_list.items

\* The configured jobs from the k-th on that the filter names, in order.
RECURSIVE NamedFrom(_)
NamedFrom(k) ==
    IF k > Len(config.videos) THEN <<>>
    ELSE IF Named(config.videos[k]) THEN <<config.videos[k]>> \o NamedFrom(k + 1)
    ELSE NamedFrom(k + 1)

FilterGiven == video_list.given /\ video_list.items # {}

(* C8.  In a run with a non-empty filter the resolved job list is exactly  *)
(* the configured jobs whose id, path or URL is in the filter, in their    *)
(* configured order, and in a run without filter it is the configured      *)
(* list; the summary's total is the length of that list; and the run       *)
(* touches no other job: the job in hand is one of the list, and (in the   *)
(* extractor's first run) every cached identity, every uploaded path and   *)
(* every changed output path is that of a job of the list.                 *)
C8_FilterResolves ==
    runs >= 1 =>
        /\ videos = IF FilterGiven THEN NamedFrom(1) ELSE config.videos
        /\ pc = "returned" => results.total = Len(videos)
        /\ Len(done) <= Len(videos)
        /\ pc \in {"job", "poll", "extract", "save"} => i \in 1..Len(videos)
        /\ runs = 1 =>
              /\ \A s \in DOMAIN uploaded_files :
                    \E k \in 1..Len(videos) : SourceOf(videos[k]) = s
              /\ \A p \in Paths : uploads[p] > 0 =>
                    \E k \in 1..Len(videos) : videos[k].path = p
              /\ \A o \in Outputs : docs[o] # InitialDocs[o] =>
                    \E k \in 1..Len(videos) : videos[k].output = o

\* A filter that names one of two configured jobs: the run returned a
\* summary of one job, and the other job's output path is as it was.
C8_Witness ==
    /\ pc = "returned"
    /\ runs = 1
    /\ FilterGiven
    /\ Len(config.videos) = 2
    /\ Len(videos) = 1 /\ videos[1] = config.videos[2]
    /\ results.total = 1 /\ results.success = 1
    /\ config.videos[1].output # videos[1].output
    /\ docs[config.videos[1].output] = InitialDocs[config.videos[1].output]

(* C9.  The document a job writes is its header, a blank line and the      *)
(* extracted text, and the header's source line shows the job's own        *)
(* source: the URL of a remote job, and for a local job the label          *)
(* "Video File" with the job's local path.                                 *)
C9_SourceLine ==
    (last.outcome = "success") =>
        LET v == JobOf(last)
            d == docs[v.output]
        IN  /\ Len(d) >= 7
            /\ d[Len(d)] = Body
            /\ d[Len(d) - 1] = ""
            /\ d[5] = IF IsRemote(v)
                      THEN "**YouTube URL:** " \o v.youtube_url
                      ELSE "**Video File:** " \o v.path

\* Initialization succeeds: the configuration file is readable and one of
\* the three credential sources holds a key.
InitSucceeds ==
    /\ config.ok
    /\ Truthy(args_api_key) \/ Truthy(environ) \/ Truthy(config.api_key)

(* C10.  The command's exit code is 0 or 1, and it is 0 exactly when       *)
(* initialization succeeded and every resolved job succeeded; when         *)
(* initialization failed no job was processed.                             *)
C10_ExitCode ==
    pc = "exited" =>
        /\ exit_code \in {0, 1}
        /\ exit_code = 0 <=>
              /\ InitSucceeds
              /\ Len(done) = Len(videos)
              /\ \A k \in 1..Len(done) : done[k].stages_ok
        /\ ~InitSucceeds =>
              /\ runs = 0 /\ done = <<>> /\ ~service_calls
              /\ file_count = 0 /\ uploaded_files = <<>> /\ docs = InitialDocs

\* The command ended with status 1 after a run of two jobs of which the
\* first succeeded and the second failed.
C10_Witness ==
    /\ pc = "exited"
    /\ exit_code = 1
    /\ InitSucceeds
    /\ Len(videos) = 2 /\ Len(done) = 2
    /\ done[1].stages_ok /\ done[2].outcome = "failed"

---------------------------------------------------------------------------
\* The credential that the precedence override > environment > file selects.
HighestPresent ==
    IF Truthy(args_api_key) THEN args_api_key
    ELSE IF Truthy(environ) THEN environ
    ELSE config.api_key

(* C11.  Once the constructor has run on a readable configuration, the     *)
(* credential in use is the explicit override when one was given, else the *)
(* environment variable when it is set, else the in-file field, for every  *)
(* combination of the three being present or absent; and initialization    *)
(* has failed, with status 1 and before any run, exactly when none of the  *)
(* three is present.  (main_init leaves environ as it was when no override *)
(* is given, so environ is the process's original variable in that case.)  *)
C11_CredentialPrecedence ==
    (pc # "start" /\ config.ok) =>
        /\ Truthy(HighestPresent) =>
              /\ api_key = HighestPresent
              /\ ~(pc = "exited" /\ runs = 0)
        /\ ~Truthy(HighestPresent) =>
              /\ pc = "exited" /\ runs = 0 /\ exit_code = 1
              /\ api_key = None
        /\ Truthy(args_api_key) => environ = args_api_key

\* The environment variable wins over the in-file field when both are set
\* and no override is given, and a run has started with it.
C11_Witness ==
    /\ pc = "job"
    /\ ~Truthy(args_api_key)
    /\ environ = KeyEnv /\ config.api_key = KeyFile
    /\ api_key = KeyEnv

---------------------------------------------------------------------------
\* The stages of the job with history c ran in order, each at most once and
\* each only after the one before it succeeded.
StagesInOrder(c) ==
    /\ c.extract # "none" => c.prepare = "ok"
    /\ c.write # "none" => c.extract = "ok"
    /\ c.uploads <= 1 /\ c.requests <= 1 /\ c.writes <= 1
    /\ c.requests = 1 => c.prepare = "ok" /\ c.extract # "none"
    /\ c.writes = 1 => c.write # "none"

(* C12.  Within one job the stages run in the order prepare, extract,      *)
(* write, each at most once and each only if the one before succeeded; the *)
(* generation request carries the uri of the handle that preparation      *)
(* returned for this job; the output file is touched only in the write     *)
(* stage, after the generation call returned text that is not empty; and a *)
(* response without text makes the job fail with no write.                 *)
C12_StageOrder ==
    /\ [] \A c \in {cur, last} :
            /\ StagesInOrder(c)
            /\ c.requests = 1 =>
                  /\ Truthy(c.handle_uri)
                  /\ c.gen_uri = c.handle_uri
            /\ c.write # "none" => c.response = "text"
            /\ c.response \in {"error", "empty"} =>
                  /\ c.extract = "fail" /\ c.write = "none" /\ c.writes = 0
                  /\ c.outcome \in {"running", "failed"}
    /\ [] (pc = "save" => cur.response = "text" /\ content = Body)
    /\ [][docs' # docs =>
            /\ pc = "save" /\ cur.extract = "ok" /\ cur.response = "text"
            /\ last'.writes = 1]_vars

\* A job whose generation call returned no text has ended as a failure,
\* after a preparation that succeeded, and the files are as they were.
C12_Witness ==
    /\ last.response = "empty"
    /\ last.prepare = "ok" /\ last.outcome = "failed"
    /\ last.job = 1 /\ runs = 1
    /\ docs = InitialDocs

---------------------------------------------------------------------------
\* A job of the run is in hand.
InJob == pc \in {"job", "poll", "extract", "save"}

---------------------------------------------------------------------------
\* The run is between two jobs or over: the last job to end is the last one
\* to have acted.
BetweenJobs == pc \in {"job", "returned", "raised", "exited"}

\* upload_video was called for the job with history c.
LocalPrepare(c) == c.exists_checked

\* A call of the local preparation with history c raised for a reason of
\* its surroundings: open(), client.files.upload or client.files.get.
CallRaised(c) ==
    \/ c.file_state = "error"
    \/ /\ c.exists = "yes" /\ ~c.cached_at_call
       /\ c.uploads = 0 /\ c.prepare = "fail"

(* C14 as stated.  A local preparation that has ended, none of its calls   *)
(* having raised, has one of three outcomes:                               *)
(* the path does not exist and it failed without an upload; or             *)
(* the file was uploaded and its processing ended FAILED, and it failed    *)
(* with nothing cached; or the file was uploaded, its processing ended in  *)
(* another state, and the handle was returned and cached.                  *)
C14_ThreeOutcomes ==
    \A c \in {cur, last} :
        (LocalPrepare(c) /\ c.prepare # "none" /\ ~CallRaised(c)) =>
            \/ c.exists = "no" /\ c.prepare = "fail" /\ c.uploads = 0
            \/ /\ c.exists = "yes" /\ c.uploads = 1
               /\ c.file_state = "FAILED" /\ c.prepare = "fail"
            \/ /\ c.exists = "yes" /\ c.uploads = 1
               /\ c.file_state = "ACTIVE" /\ c.prepare = "ok"

(* C14, amended.  A local preparation ends in one of these ways.  The path *)
(* does not exist: it fails, with no upload and no poll.  The path exists  *)
(* and the identity is cached: the cached handle is returned, with no      *)
(* upload and no poll.  The path exists and the identity is not cached:    *)
(* opening the file raises and it fails with no upload; or the file is     *)
(* uploaded once and polled only while the state is PROCESSING, and then a *)
(* raised upload or poll call or the state FAILED makes it fail, while any *)
(* other state returns the handle.  A failed preparation of an identity    *)
(* that was not cached leaves it not cached; a handle that is returned is  *)
(* the one cached under the path, and nothing cached is in state FAILED or *)
(* PROCESSING.                                                             *)
C14_LocalOutcomes ==
    /\ \A c \in {cur, last} :
          LocalPrepare(c) =>
             /\ c.exists = "no" =>
                   /\ c.prepare = "fail" /\ c.uploads = 0
                   /\ ~c.polled /\ c.file_state = "none"
             /\ (c.exists = "yes" /\ c.cached_at_call) =>
                   /\ c.prepare = "ok" /\ c.uploads = 0
                   /\ ~c.polled /\ c.file_state = "none"
             /\ (c.exists = "yes" /\ ~c.cached_at_call /\ c.prepare # "none") =>
                   \/ c.uploads = 0 /\ c.file_state = "none" /\ c.prepare = "fail"
                   \/ /\ c.uploads = 1 /\ c.file_state \in {"error", "FAILED"}
                      /\ c.prepare = "fail"
                   \/ /\ c.uploads = 1 /\ c.file_state = "ACTIVE"
                      /\ c.prepare = "ok"
             /\ c.polled => c.uploads = 1
    /\ pc = "poll" =>
          /\ LocalPrepare(cur) /\ cur.prepare = "none" /\ cur.uploads = 1
          /\ cur.file_state = "PROCESSING"
          /\ video_file_obj.state = "PROCESSING"
          /\ ~CacheHit(uploaded_files, videos[i].path)
    /\ (BetweenJobs /\ LocalPrepare(last) /\ last.prepare = "fail"
          /\ ~last.cached_at_call) =>
          ~CacheHit(uploaded_files, JobOf(last).path)
    /\ (pc \in {"extract", "save"} /\ LocalPrepare(cur)) =>
          /\ CacheHit(uploaded_files, videos[i].path)
          /\ uploaded_files[videos[i].path] = video_file_obj
          /\ cur.handle_uri = video_file_obj.uri
    /\ \A k \in DOMAIN uploaded_files :
          uploaded_files[k].state \notin {"FAILED", "PROCESSING", "error"}

\* The upload was polled and its processing ended FAILED: the job failed
\* and its path is not in the cache.
C14_Witness ==
    /\ pc = "job"
    /\ LocalPrepare(last) /\ last.polled
    /\ last.file_state = "FAILED" /\ last.prepare = "fail"
    /\ ~CacheHit(uploaded_files, JobOf(last).path)

---------------------------------------------------------------------------
\* Under SpecLive every polling loop is left.
PreparationReturns == (pc = "poll") ~> (pc # "poll")

\* The polling loop is left only in a turn in which the service reported a
\* state other than PROCESSING or the call raised; until then the job in
\* hand stays the same and no job ends.
PollLoopUnbounded ==
    [][pc = "poll" =>
          IF pc' = "poll"
          THEN i' = i /\ done' = done /\ cur'.file_state = "PROCESSING"
          ELSE \/ cur'.file_state = "ACTIVE"
               \/ last'.file_state \in {"error", "FAILED"} /\ last'.job = i]_vars

(* C15.  If the service eventually reports a state other than PROCESSING   *)
(* for every upload (the fairness of SpecLive), every run of process_batch *)
(* that has a job in hand eventually returns its summary.                  *)
C15_BatchReturns ==
    \A r \in 1..MaxRuns :
        (InJob /\ runs = r) ~> (pc = "returned" /\ runs = r)

\* Under SpecLive every run that has a job in hand ends, by returning its
\* summary or by the exception of C1.
BatchEnds ==
    \A r \in 1..MaxRuns :
        (InJob /\ runs = r) ~> (pc \in {"returned", "raised"} /\ runs = r)

---------------------------------------------------------------------------
(* C16.  The cache is never evicted or overwritten: in every step, every   *)
(* identity in the cache stays in it with the same handle, also in the     *)
(* step in which a generation call with that handle fails and across the   *)
(* start of a run.  A job whose identity was cached when it was prepared   *)
(* makes no upload and no poll; when its generation call fails the job is  *)
(* an ordinary failure, in the summary, and the handle is still the one    *)
(* cached for its identity.                                                *)
C16_CacheKept ==
    /\ [][\A k \in DOMAIN uploaded_files :
              /\ k \in DOMAIN uploaded_files'
              /\ uploaded_files'[k] = uploaded_files[k]]_vars
    /\ [] \A c \in {cur, last} :
            c.cached_at_call => c.uploads = 0 /\ ~c.polled
    /\ [] ((last.cached_at_call /\ last.extract = "fail") =>
              /\ last.outcome = "failed"
              /\ results.failed >= 1
              /\ CacheHit(uploaded_files, SourceOf(JobOf(last)))
              /\ uploaded_files[SourceOf(JobOf(last))].uri = last.handle_uri)

\* The generation call with a cached handle failed, and the next job, of
\* the same identity, was prepared from the cache with the same handle.
C16_Witness ==
    /\ pc = "extract" /\ i = 2
    /\ last.cached_at_call /\ last.extract = "fail" /\ last.requests = 1
    /\ cur.cached_at_call /\ cur.uploads = 0
    /\ SourceOf(videos[2]) = SourceOf(videos[1])
    /\ cur.handle_uri = last.handle_uri
    /\ ~IsRemote(videos[2])

---------------------------------------------------------------------------
(* C17.  Across consecutive runs of process_batch on one extractor the     *)
(* summary is made anew by each run: the step that starts a run sets the   *)
(* counts of successes and failures to zero and the failure list, when     *)
(* the run has jobs, to the empty list, and during the run the counts are  *)
(* those of the jobs this run has ended.  The preparation cache persists:  *)
(* the step that starts a run leaves it as it is, and no step uploads a    *)
(* local path that is in the cache.                                        *)
C17_FreshSummaryKeptCache ==
    /\ [][runs' # runs =>
            /\ runs' = runs + 1
            /\ results'.total = Len(videos')
            /\ results'.success = 0 /\ results'.failed = 0
            /\ Len(videos') > 0 => results'.errors = <<>>
            /\ uploaded_files' = uploaded_files
            /\ uploads' = uploads]_vars
    /\ [] (runs > 0 =>
            /\ results.success + results.failed
                  = Cardinality({k \in 1..Len(done) : done[k].outcome # "raised"})
            /\ results.success = Cardinality(Succeeded)
            /\ Len(videos) > 0 => Len(results.errors) = results.failed)
    /\ [][\A p \in Paths :
            CacheHit(uploaded_files, p) => uploads'[p] = uploads[p]]_vars

\* The second run prepares, from the cache and with no upload, the local
\* file that the first run uploaded, and its summary counts nothing of the
\* first run, in which that job failed.
C17_Witness ==
    /\ runs = 2 /\ i = 1 /\ pc = "save"
    /\ Len(config.videos) = 1 /\ ~IsRemote(videos[1])
    /\ cur.cached_at_call /\ cur.uploads = 0
    /\ uploads[videos[1].path] = 1
    /\ results.failed = 0 /\ results.errors = <<>>
    /\ docs = InitialDocs

---------------------------------------------------------------------------
(* C18.  Remote preparation makes no service call and always succeeds, and *)
(* whatever prepare calls went before on the extractor, the handle it      *)
(* returns has the job's own URL as uri and is marked as a YouTube source. *)
C18_RemoteHandle ==
    /\ (pc \in {"extract", "save"} /\ IsRemote(videos[i])) =>
          /\ cur.prepare = "ok"
          /\ cur.uploads = 0 /\ ~cur.polled /\ ~cur.exists_checked
          /\ cur.handle_uri = videos[i].youtube_url
          /\ video_file_obj.uri = videos[i].youtube_url
          /\ video_file_obj.is_youtube
    /\ (last.job > 0 /\ IsRemote(JobOf(last)) /\ last.outcome # "raised") =>
          /\ last.prepare = "ok"
          /\ last.uploads = 0 /\ ~last.polled /\ ~last.exists_checked
          /\ last.handle_uri = JobOf(last).youtube_url

---------------------------------------------------------------------------
\* The job has both a local path and a remote URL.
HasBoth(v) == Truthy(v.path) /\ Truthy(v.youtube_url)

(* C19.  For a job that has both a local path and a remote URL the URL     *)
(* takes precedence everywhere: the job is prepared as a remote source,    *)
(* with no existence check and no upload, the generation request carries   *)
(* the URL, the document's source line shows the URL, and the failure      *)
(* record of the job carries the URL as its source.                        *)
C19_UrlPrecedence ==
    /\ (pc \in {"extract", "save"} /\ HasBoth(videos[i])) =>
          /\ ~cur.exists_checked /\ cur.uploads = 0 /\ ~cur.polled
          /\ cur.handle_uri = videos[i].youtube_url
          /\ cur.requests = 1 => cur.gen_uri = videos[i].youtube_url
    /\ (last.job > 0 /\ HasBoth(JobOf(last))) =>
          LET v == JobOf(last)
          IN  /\ ~last.exists_checked /\ last.uploads = 0 /\ ~last.polled
              /\ last.requests = 1 => last.gen_uri = v.youtube_url
              /\ last.outcome = "success" =>
                    docs[v.output][5] = "**YouTube URL:** " \o v.youtube_url
              /\ last.outcome = "failed" =>
                    results.errors[results.failed].source = v.youtube_url

\* C19 without the uri of the handle and of the request: the part of the
\* precedence that the cache cannot disturb.
UrlPrecedenceButUri ==
    /\ (pc \in {"extract", "save"} /\ HasBoth(videos[i])) =>
          ~cur.exists_checked /\ cur.uploads = 0 /\ ~cur.polled
    /\ (last.job > 0 /\ HasBoth(JobOf(last))) =>
          LET v == JobOf(last)
          IN  /\ ~last.exists_checked /\ last.uploads = 0 /\ ~last.polled
              /\ last.prepare = "ok"
              /\ last.outcome = "success" =>
                    docs[v.output][5] = "**YouTube URL:** " \o v.youtube_url
              /\ last.outcome = "failed" =>
                    results.errors[results.failed].source = v.youtube_url

---------------------------------------------------------------------------
\* A run of process_batch whose resolved job list is empty has returned.
EmptyRunReturned == pc = "returned" /\ runs > 0 /\ Len(videos) = 0

(* C20.  A run whose resolved job list is empty, for want of jobs or of a  *)
(* match of the filter, is not an error: it makes no service call, no      *)
(* delay and no write, and returns a complete summary, with total 0,       *)
(* success 0, failed 0 and an empty failure list.                          *)
C20_EmptyRunSummary ==
    EmptyRunReturned =>
        /\ delays = 0 /\ ~service_calls /\ done = <<>>
        /\ results.total = 0 /\ results.success = 0 /\ results.failed = 0
        /\ "errors" \in DOMAIN results
        /\ results.errors = <<>>

\* C20 without the failure list: the run returns at once, with the three
\* counts at zero, and its one step touches no file, cache or service.
EmptyRunQuiet ==
    /\ [] (EmptyRunReturned =>
            /\ delays = 0 /\ ~service_calls /\ done = <<>>
            /\ results = EmptyResults)
    /\ [][(runs' # runs /\ ResolveVideos(config.videos, video_list') = <<>>) =>
            /\ pc' = "returned" /\ videos' = <<>>
            /\ docs' = docs /\ file_count' = file_count
            /\ uploaded_files' = uploaded_files]_vars

---------------------------------------------------------------------------
\* The jobs of this run, ended so far, that opened output path o for
\* writing, and the latest of a non-empty set of them.
WritersOf(o) == {k \in 1..Len(done) : videos[k].output = o /\ done[k].wrote}
Latest(S) == CHOOSE k \in S : \A j \in S : j <= k

\* What the ended job k left in its output file: its document, or the
\* emptied file when the write raised after the file was opened.
DocumentOf(k) ==
    IF done[k].stages_ok THEN FullContent(Body, videos[k]) ELSE <<>>

(* C21.  A job that ends without its write stage, by a failure of its      *)
(* preparation or extraction (or by an exception before them), leaves      *)
(* every output file as it was; a file's content changes only in the       *)
(* write stage of the job in hand whose output path it is, after that      *)
(* job's preparation and extraction succeeded; and at any time of a run    *)
(* the content at an output path is that of the latest job of the run      *)
(* that wrote to it, however many jobs share the path, or, in a first run  *)
(* where none has written to it, what was there before.                    *)
C21_OutputFrame ==
    /\ [][(Len(done') = Len(done) + 1 /\ last'.write = "none") =>
            docs' = docs]_vars
    /\ [][\A o \in Outputs :
            docs'[o] # docs[o] =>
               /\ pc = "save" /\ o = videos[i].output
               /\ cur.prepare = "ok" /\ cur.extract = "ok"
               /\ Len(done') = Len(done) + 1
               /\ done'[Len(done')].wrote]_vars
    /\ [] \A o \in Outputs :
            IF WritersOf(o) = {}
            THEN runs <= 1 => docs[o] = InitialDocs[o]
            ELSE docs[o] = DocumentOf(Latest(WritersOf(o)))

\* Two jobs share an output path that held a document: the first wrote its
\* own document over it, the second failed in extraction, and the file
\* holds the first job's document.
C21_Witness ==
    /\ runs = 1 /\ Len(done) = 2
    /\ videos[1].output = OutA /\ videos[2].output = OutA
    /\ done[1].stages_ok
    /\ last.job = 2 /\ last.prepare = "ok" /\ last.extract = "fail"
    /\ docs[OutA] = FullContent(Body, videos[1])
    /\ docs[OutA] # InitialDocs[OutA]
    /\ docs[OutB] = InitialDocs[OutB]

====
